---- MODULE Spec2Model ----
(***************************************************************************)
(* Verification model of the Cryostat-GUI instrument layer:                *)
(*   - LAKESHORE350 (src/LakeShore/LakeShore350_new.py): the command       *)
(*     channel, its ComLock, the write/read exchange of go(), the          *)
(*     write-only loop of initialize() and connect();                      *)
(*   - ITC_Updater (src/Oxford/ITC_control.py): the poll loop work(), the  *)
(*     gettoset_* stores and the set* wrappers;                            *)
(*   - AbstractThread (src/util/AbstractThread.py): work() and stop();     *)
(*   - mainWindow (src/mainWindow.py): run_ITC, the poller threads it      *)
(*     makes and store_data_itc.                                           *)
(* Names that the source leaves unqualified (sensors, app) are read as the *)
(* class attribute / application object they denote, and self.device of    *)
(* LAKESHORE350 as the opened transport of the address assigned to it.     *)
(* Each component has its own specification over the same variables.       *)
(***************************************************************************)
EXTENDS Integers, Sequences, FiniteSets, TLC

\* ------------------------------------------------------------- bounds ----
\* number of caller threads sharing one LAKESHORE350 instance
NThreads == 2
\* total number of go()/initialize() calls started in one behaviour
MaxCalls == 3

\* ------------------------------------------------------------ LakeShore --
VARIABLES
    ComLock,     \* threading.Lock: NoThread when free, else the acquiring thread
    pc,          \* per thread: position inside go()/initialize(), or "idle"
    callOf,      \* per thread: id of the call it is executing (0: none yet)
    cmdOf,       \* per thread: the command string passed to go() ("" outside go)
    initIdx,     \* per thread: position in ['A','B','C','D'] of initialize()
                 \* (0 outside initialize)
    outcome,     \* per thread: how its last call ended
    ncalls,      \* number of calls started so far
    failedCall,  \* history: id of the first call whose device.write/read raised
                 \* (0: none has)
    wire         \* the transport: the two most recent completed device.write/read
                 \* events, oldest first (every adjacent pair of the event sequence
                 \* is the value of wire in some state)

lsVars == <<ComLock, pc, callOf, cmdOf, initIdx, outcome, ncalls, failedCall, wire>>

Threads == 1..NThreads
NoThread == 0

\* commands handed to go(): a query and a write-only command
Commands == {"*IDN?", "*CLS"}

\* the inputs of initialize(): for a in ['A', 'B', 'C', 'D']
InitInputs == <<"A", "B", "C", "D">>

\* LAKESHORE350.__init__: a fresh, unlocked ComLock; no call yet
LSInit ==
    /\ ComLock = NoThread
    /\ pc = [t \in Threads |-> "idle"]
    /\ callOf = [t \in Threads |-> 0]
    /\ cmdOf = [t \in Threads |-> ""]
    /\ initIdx = [t \in Threads |-> 0]
    /\ outcome = [t \in Threads |-> "none"]
    /\ ncalls = 0
    /\ failedCall = 0
    /\ wire = <<>>

\* self.ComLock.acquire() without the wait: the lock is taken over even when held
LockAcquireNoWait(t) ==
    ComLock' = t

\* self.ComLock.acquire(): blocks until the lock is free (not reentrant)
LockAcquire(t) ==
    /\ ComLock = NoThread
    /\ ComLock' = t

\* self.ComLock.release()
LockRelease(t) ==
    ComLock' = NoThread

\* one completed operation on self.device
WireEvent(t, op, kind, payload) ==
    [call |-> callOf[t], th |-> t, op |-> op, kind |-> kind, data |-> payload]

\* the transport after one more completed operation
Record(w, e) ==
    IF Len(w) < 2 THEN Append(w, e) ELSE <<w[2], e>>

\* a thread enters go(command)
GoCall(t) ==
    /\ pc[t] = "idle"
    /\ ncalls < MaxCalls
    /\ \E c \in Commands :
         cmdOf' = [cmdOf EXCEPT ![t] = c]
    /\ ncalls' = ncalls + 1
    /\ callOf' = [callOf EXCEPT ![t] = ncalls + 1]
    /\ pc' = [pc EXCEPT ![t] = "go_acquire"]
    /\ outcome' = [outcome EXCEPT ![t] = "running"]
    /\ UNCHANGED <<ComLock, initIdx, failedCall, wire>>

\* go, line 70
GoAcquire(t) ==
    /\ pc[t] = "go_acquire"
    /\ LockAcquire(t)
    /\ pc' = [pc EXCEPT ![t] = "go_write"]
    /\ UNCHANGED <<callOf, cmdOf, initIdx, outcome, ncalls, failedCall, wire>>

\* go, line 71: self.device.write(command) returns
GoWriteOk(t) ==
    /\ pc[t] = "go_write"
    /\ wire' = Record(wire, WireEvent(t, "write", "go", cmdOf[t]))
    /\ pc' = [pc EXCEPT ![t] = "go_read"]
    /\ UNCHANGED <<ComLock, callOf, cmdOf, initIdx, outcome, ncalls, failedCall>>

\* go, line 71: self.device.write(command) raises; nothing catches it in go
GoWriteRaise(t) ==
    /\ pc[t] = "go_write"
    /\ pc' = [pc EXCEPT ![t] = "idle"]
    /\ outcome' = [outcome EXCEPT ![t] = "raised"]
    /\ cmdOf' = [cmdOf EXCEPT ![t] = ""]
    /\ initIdx' = [initIdx EXCEPT ![t] = 0]
    /\ failedCall' = IF failedCall = 0 THEN callOf[t] ELSE failedCall
    /\ UNCHANGED <<ComLock, callOf, ncalls, wire>>

\* go, line 72: self.device.read(100) returns a reply
GoReadOk(t) ==
    /\ pc[t] = "go_read"
    /\ wire' = Record(wire, WireEvent(t, "read", "go", cmdOf[t]))
    /\ pc' = [pc EXCEPT ![t] = "go_release"]
    /\ UNCHANGED <<ComLock, callOf, cmdOf, initIdx, outcome, ncalls, failedCall>>

\* go, line 72: self.device.read(100) raises (timeout); nothing catches it in go
GoReadRaise(t) ==
    /\ pc[t] = "go_read"
    /\ pc' = [pc EXCEPT ![t] = "idle"]
    /\ outcome' = [outcome EXCEPT ![t] = "raised"]
    /\ cmdOf' = [cmdOf EXCEPT ![t] = ""]
    /\ initIdx' = [initIdx EXCEPT ![t] = 0]
    /\ failedCall' = IF failedCall = 0 THEN callOf[t] ELSE failedCall
    /\ UNCHANGED <<ComLock, callOf, ncalls, wire>>

\* go, lines 73-75: release, show, return received.strip()
GoRelease(t) ==
    /\ pc[t] = "go_release"
    /\ LockRelease(t)
    /\ pc' = [pc EXCEPT ![t] = "idle"]
    /\ outcome' = [outcome EXCEPT ![t] = "returned"]
    /\ cmdOf' = [cmdOf EXCEPT ![t] = ""]
    /\ UNCHANGED <<callOf, initIdx, ncalls, failedCall, wire>>

\* a thread enters initialize(): the loop starts at 'A'
InitCall(t) ==
    /\ pc[t] = "idle"
    /\ ncalls < MaxCalls
    /\ ncalls' = ncalls + 1
    /\ callOf' = [callOf EXCEPT ![t] = ncalls + 1]
    /\ initIdx' = [initIdx EXCEPT ![t] = 1]
    /\ pc' = [pc EXCEPT ![t] = "init_acquire"]
    /\ outcome' = [outcome EXCEPT ![t] = "running"]
    /\ UNCHANGED <<ComLock, cmdOf, failedCall, wire>>

\* initialize, line 63
InitAcquire(t) ==
    /\ pc[t] = "init_acquire"
    /\ LockAcquire(t)
    /\ pc' = [pc EXCEPT ![t] = "init_write"]
    /\ UNCHANGED <<callOf, cmdOf, initIdx, outcome, ncalls, failedCall, wire>>

\* initialize, line 64: self.device.write(cmd + '\n') returns
InitWriteOk(t) ==
    /\ pc[t] = "init_write"
    /\ wire' = Record(wire, WireEvent(t, "write", "init", InitInputs[initIdx[t]]))
    /\ pc' = [pc EXCEPT ![t] = "init_release"]
    /\ UNCHANGED <<ComLock, callOf, cmdOf, initIdx, outcome, ncalls, failedCall>>

\* initialize, line 64: the write raises; nothing catches it in initialize
InitWriteRaise(t) ==
    /\ pc[t] = "init_write"
    /\ pc' = [pc EXCEPT ![t] = "idle"]
    /\ outcome' = [outcome EXCEPT ![t] = "raised"]
    /\ cmdOf' = [cmdOf EXCEPT ![t] = ""]
    /\ initIdx' = [initIdx EXCEPT ![t] = 0]
    /\ failedCall' = IF failedCall = 0 THEN callOf[t] ELSE failedCall
    /\ UNCHANGED <<ComLock, callOf, ncalls, wire>>

\* initialize, line 65, then the next input of the for loop or the return
InitRelease(t) ==
    /\ pc[t] = "init_release"
    /\ LockRelease(t)
    /\ IF initIdx[t] < Len(InitInputs)
         THEN /\ initIdx' = [initIdx EXCEPT ![t] = initIdx[t] + 1]
              /\ pc' = [pc EXCEPT ![t] = "init_acquire"]
              /\ UNCHANGED outcome
         ELSE /\ pc' = [pc EXCEPT ![t] = "idle"]
              /\ outcome' = [outcome EXCEPT ![t] = "returned"]
              /\ initIdx' = [initIdx EXCEPT ![t] = 0]
    /\ UNCHANGED <<callOf, cmdOf, ncalls, failedCall, wire>>

\* a step of a go()/initialize() call that has already been entered
CallStep(t) ==
    \/ GoAcquire(t)
    \/ GoWriteOk(t)
    \/ GoWriteRaise(t)
    \/ GoReadOk(t)
    \/ GoReadRaise(t)
    \/ GoRelease(t)
    \/ InitAcquire(t)
    \/ InitWriteOk(t)
    \/ InitWriteRaise(t)
    \/ InitRelease(t)

LSNext ==
    \E t \in Threads :
        \/ GoCall(t)
        \/ InitCall(t)
        \/ CallStep(t)

\* --------------------------------------------------- LAKESHORE350.connect --
\* number of connect() calls in one behaviour
MaxConnects == 2

VARIABLES
    connPc,      \* per thread: where its connect() call is: "none" (not inside
                 \* connect), "go" (inside self.go('*IDN?'), line 34), "init"
                 \* (inside self.initialize(), line 38)
    identity,    \* self.identity
    status,      \* self.status
    connected,   \* self.connected
    connOutcome, \* per thread: how its last connect() ended: "none", "running",
                 \* "returned" or "raised"
    connRet,     \* per thread: the value its last connect() returned
    connExc,     \* per thread: the exception that left its last connect()
    connLog,     \* history, per thread: the device.write/read operations
                 \* completed by its current or last connect(), in order
    nConnects    \* number of connect() calls so far

connVars == <<connPc, identity, status, connected, connOutcome, connRet, connExc,
              connLog, nConnects>>

\* the stripped first line the instrument sends in reply to a command
ReplyTo(c) ==
    IF c = "*IDN?" THEN "LSCI,MODEL350,serial,firmware" ELSE ""

\* the exceptions device.write/read can leave go()/initialize() with: the one
\* connect() catches, and the others (a VisaIOError, for instance)
TransportErrors == {"socket.timeout", "other"}

\* LAKESHORE350.__init__, lines 22-24
ConnInit ==
    /\ connPc = [t \in Threads |-> "none"]
    /\ identity = ""
    /\ status = ""
    /\ connected = FALSE
    /\ connOutcome = [t \in Threads |-> "none"]
    /\ connRet = [t \in Threads |-> ""]
    /\ connExc = [t \in Threads |-> "none"]
    /\ connLog = [t \in Threads |-> <<>>]
    /\ nConnects = 0

\* connect, lines 31-34: the call enters self.go('*IDN?')
ConnectCall(t) ==
    /\ pc[t] = "idle"
    /\ \A u \in Threads : connPc[u] = "none"
    /\ nConnects < MaxConnects
    /\ nConnects' = nConnects + 1
    /\ connPc' = [connPc EXCEPT ![t] = "go"]
    /\ connOutcome' = [connOutcome EXCEPT ![t] = "running"]
    /\ connRet' = [connRet EXCEPT ![t] = ""]
    /\ connExc' = [connExc EXCEPT ![t] = "none"]
    /\ connLog' = [connLog EXCEPT ![t] = <<>>]
    /\ cmdOf' = [cmdOf EXCEPT ![t] = "*IDN?"]
    /\ ncalls' = ncalls + 1
    /\ callOf' = [callOf EXCEPT ![t] = ncalls + 1]
    /\ pc' = [pc EXCEPT ![t] = "go_acquire"]
    /\ outcome' = [outcome EXCEPT ![t] = "running"]
    /\ UNCHANGED <<ComLock, initIdx, failedCall, wire>>
    /\ UNCHANGED <<identity, status, connected>>

\* a step of the go() or initialize() call made by connect()
ConnectSubStep(t) ==
    /\ connPc[t] \in {"go", "init"}
    /\ CallStep(t)
    /\ connLog' = [connLog EXCEPT ![t] =
                      IF wire' # wire
                        THEN LET e == wire'[Len(wire')]
                             IN Append(@, [op |-> e.op, kind |-> e.kind, data |-> e.data])
                        ELSE @]
    /\ UNCHANGED <<connPc, identity, status, connected, connOutcome, connRet,
                   connExc, nConnects>>

\* a connect() that sets connected after the identification and leaves status
\* as it was
ConnectAfterGoKeepsStatus(t) ==
    /\ connPc[t] = "go"
    /\ pc[t] = "idle"
    /\ outcome[t] = "returned"
    /\ identity' = ReplyTo("*IDN?")
    /\ connected' = TRUE
    /\ connPc' = [connPc EXCEPT ![t] = "init"]
    /\ ncalls' = ncalls + 1
    /\ callOf' = [callOf EXCEPT ![t] = ncalls + 1]
    /\ initIdx' = [initIdx EXCEPT ![t] = 1]
    /\ pc' = [pc EXCEPT ![t] = "init_acquire"]
    /\ outcome' = [outcome EXCEPT ![t] = "running"]
    /\ UNCHANGED <<ComLock, cmdOf, failedCall, wire>>
    /\ UNCHANGED <<status, connOutcome, connRet, connExc, connLog, nConnects>>

\* connect, lines 34-38: go() has returned the reply; identity, status and
\* connected are assigned and the call enters self.initialize()
ConnectAfterGo(t) ==
    /\ connPc[t] = "go"
    /\ pc[t] = "idle"
    /\ outcome[t] = "returned"
    /\ identity' = ReplyTo("*IDN?")
    /\ status' = "connected"
    /\ connected' = TRUE
    /\ connPc' = [connPc EXCEPT ![t] = "init"]
    /\ ncalls' = ncalls + 1
    /\ callOf' = [callOf EXCEPT ![t] = ncalls + 1]
    /\ initIdx' = [initIdx EXCEPT ![t] = 1]
    /\ pc' = [pc EXCEPT ![t] = "init_acquire"]
    /\ outcome' = [outcome EXCEPT ![t] = "running"]
    /\ UNCHANGED <<ComLock, cmdOf, failedCall, wire>>
    /\ UNCHANGED <<connOutcome, connRet, connExc, connLog, nConnects>>

\* connect, line 39: initialize() has returned; self.get_curves() is evaluated.
\* LAKESHORE350 defines no get_curves: the attribute lookup raises AttributeError,
\* which the except clause of line 41 does not catch
ConnectAfterInit(t) ==
    /\ connPc[t] = "init"
    /\ pc[t] = "idle"
    /\ outcome[t] = "returned"
    /\ connPc' = [connPc EXCEPT ![t] = "none"]
    /\ connOutcome' = [connOutcome EXCEPT ![t] = "raised"]
    /\ connExc' = [connExc EXCEPT ![t] = "AttributeError"]
    /\ UNCHANGED <<identity, status, connected, connRet, connLog, nConnects>>
    /\ UNCHANGED lsVars

\* a connect() whose timeout handler returns 'none' and leaves connected and
\* status as they are
ConnectSubRaisedKeepsState(t, e) ==
    /\ connPc[t] \in {"go", "init"}
    /\ pc[t] = "idle"
    /\ outcome[t] = "raised"
    /\ connPc' = [connPc EXCEPT ![t] = "none"]
    /\ IF e = "socket.timeout"
         THEN /\ identity' = "none"
              /\ connOutcome' = [connOutcome EXCEPT ![t] = "returned"]
              /\ connRet' = [connRet EXCEPT ![t] = "none"]
              /\ UNCHANGED <<connExc, status, connected>>
         ELSE /\ connOutcome' = [connOutcome EXCEPT ![t] = "raised"]
              /\ connExc' = [connExc EXCEPT ![t] = e]
              /\ UNCHANGED <<identity, status, connected, connRet>>
    /\ UNCHANGED <<connLog, nConnects>>
    /\ UNCHANGED lsVars

\* connect, lines 41-45: go() or initialize() was left by exception e. A
\* socket.timeout is caught: status, identity and connected are reset and
\* self.identity is returned; any other exception leaves connect()
ConnectSubRaised(t, e) ==
    /\ connPc[t] \in {"go", "init"}
    /\ pc[t] = "idle"
    /\ outcome[t] = "raised"
    /\ connPc' = [connPc EXCEPT ![t] = "none"]
    /\ IF e = "socket.timeout"
         THEN /\ status' = "socket timeout"
              /\ identity' = "none"
              /\ connected' = FALSE
              /\ connOutcome' = [connOutcome EXCEPT ![t] = "returned"]
              /\ connRet' = [connRet EXCEPT ![t] = "none"]
              /\ UNCHANGED connExc
         ELSE /\ connOutcome' = [connOutcome EXCEPT ![t] = "raised"]
              /\ connExc' = [connExc EXCEPT ![t] = e]
              /\ UNCHANGED <<identity, status, connected, connRet>>
    /\ UNCHANGED <<connLog, nConnects>>
    /\ UNCHANGED lsVars

ConnNext ==
    \E t \in Threads :
        \/ ConnectCall(t)
        \/ ConnectSubStep(t)
        \/ ConnectAfterGo(t)
        \/ ConnectAfterInit(t)
        \/ \E e \in TransportErrors : ConnectSubRaised(t, e)

\* ------------------------------------------- several LAKESHORE350 objects --
\* number of LAKESHORE350 instances
NInstances == 2
\* number of go() calls on all instances in one behaviour
MaxInstCalls == 3

VARIABLES
    instLock,    \* per instance: its ComLock (NoThread when free, else the holder)
    instPc,      \* per thread: position inside go(): "idle", "go_acquire",
                 \* "go_write", "go_read", "go_release"
    instOf,      \* per thread: the instance its current or last go() call is on
    instCalls    \* number of go() calls started so far

instVars == <<instLock, instPc, instOf, instCalls>>

LSInstances == 1..NInstances

\* __init__, line 29, for each instance: self.ComLock = threading.Lock()
InstInit ==
    /\ instLock = [i \in LSInstances |-> NoThread]
    /\ instPc = [t \in Threads |-> "idle"]
    /\ instOf = [t \in Threads |-> 1]
    /\ instCalls = 0

\* a ComLock that is one object shared by all instances (a class attribute)
LockOfShared(i) == 1

\* the lock instance i uses in go(): self.ComLock, made in its own __init__
LockOf(i) == i

\* thread t enters go() on instance i
InstGoCall(t, i) ==
    /\ instPc[t] = "idle"
    /\ instCalls < MaxInstCalls
    /\ instCalls' = instCalls + 1
    /\ instOf' = [instOf EXCEPT ![t] = i]
    /\ instPc' = [instPc EXCEPT ![t] = "go_acquire"]
    /\ UNCHANGED instLock

\* go, line 70: self.ComLock.acquire()
InstGoAcquire(t) ==
    /\ instPc[t] = "go_acquire"
    /\ instLock[LockOf(instOf[t])] = NoThread
    /\ instLock' = [instLock EXCEPT ![LockOf(instOf[t])] = t]
    /\ instPc' = [instPc EXCEPT ![t] = "go_write"]
    /\ UNCHANGED <<instOf, instCalls>>

\* go, lines 71-72: device.write, then device.read, returns
InstGoStepOk(t) ==
    /\ instPc[t] \in {"go_write", "go_read"}
    /\ instPc' = [instPc EXCEPT ![t] = IF @ = "go_write" THEN "go_read" ELSE "go_release"]
    /\ UNCHANGED <<instLock, instOf, instCalls>>

\* go, lines 71-72: device.write or device.read raises; go() is left with the
\* lock held
InstGoStepRaise(t) ==
    /\ instPc[t] \in {"go_write", "go_read"}
    /\ instPc' = [instPc EXCEPT ![t] = "idle"]
    /\ UNCHANGED <<instLock, instOf, instCalls>>

\* go, lines 73-75: self.ComLock.release() and return
InstGoRelease(t) ==
    /\ instPc[t] = "go_release"
    /\ instLock' = [instLock EXCEPT ![LockOf(instOf[t])] = NoThread]
    /\ instPc' = [instPc EXCEPT ![t] = "idle"]
    /\ UNCHANGED <<instOf, instCalls>>

InstNext ==
    \E t \in Threads :
        \/ \E i \in LSInstances : InstGoCall(t, i)
        \/ InstGoAcquire(t)
        \/ InstGoStepOk(t)
        \/ InstGoStepRaise(t)
        \/ InstGoRelease(t)

\* --------------------------------------- the Query methods of the catalog --
\* number of catalog calls in one behaviour
MaxQueries == 3

VARIABLES
    qPc,         \* "idle", or "reading": go() has written and waits in device.read
    qMethod,     \* the catalog method of the current or last call
    qArgs,       \* the positional arguments the caller passed (a sequence)
    qSent,       \* the text the call handed to device.write ("" when none)
    qReply,      \* what device.read(100) returned (a sequence of characters)
    qRet,        \* the value the method returned
    qOutcome,    \* "none", "returned", "TypeError"
    nQueries     \* number of calls made so far

qVars == <<qPc, qMethod, qArgs, qSent, qReply, qRet, qOutcome, nQueries>>

\* Query methods of the catalog, lines 126-135, 193-206, 374-391, 709-721, 811-830
QueryMethods ==
    {"IdentificationQuery", "StatusByteQuery", "CelsiusReadingQuery",
     "InputCurveNumberQuery", "KelvinReadingQuery"}

\* the inputs a caller asks for
QueryInputs == {"A", "B"}

\* the argument lists a caller may pass
ArgLists == {<<>>} \cup {<<a>> : a \in QueryInputs}

\* what the instrument puts on the line: characters, "\r\n" being the terminator
RawReplies ==
    {<<"7", "\r\n">>, <<" ", "7", "\r\n">>, <<"7", " ", "\r\n">>, <<"+", "7", "\r\n", "0">>}

\* the 'Input:' line of the method's docstring: the mnemonic, and whether an
\* <input> follows it
DocMnemonic(m) ==
    CASE m = "IdentificationQuery" -> "*IDN?"
      [] m = "StatusByteQuery" -> "*STB?"
      [] m = "CelsiusReadingQuery" -> "CRDG?"
      [] m = "InputCurveNumberQuery" -> "INCRV?"
      [] m = "KelvinReadingQuery" -> "KRDG?"

DocHasInput(m) == m \in {"CelsiusReadingQuery", "InputCurveNumberQuery", "KelvinReadingQuery"}

\* the def line: the number of parameters after self
Arity(m) == IF m \in {"CelsiusReadingQuery", "InputCurveNumberQuery"} THEN 1 ELSE 0

\* the argument of self.go(...) in the method's body
GoArgument(m, args) ==
    CASE m = "IdentificationQuery" -> "*IDN?"
      [] m = "StatusByteQuery" -> "*STB?"
      [] m = "CelsiusReadingQuery" -> "CRDG? " \o args[1]
      [] m = "InputCurveNumberQuery" -> "INRCV? " \o args[1]
      [] m = "KelvinReadingQuery" -> "KRDG?"

\* whether the body is 'return self.go(...)' (TRUE) or a bare 'self.go(...)'
ReturnsGo(m) == m \in {"IdentificationQuery", "CelsiusReadingQuery", "InputCurveNumberQuery"}

\* str.split('\r\n')[0]: the characters before the first terminator
RECURSIVE FirstLine(_)
FirstLine(s) ==
    IF s = <<>> \/ Head(s) = "\r\n" THEN <<>> ELSE <<Head(s)>> \o FirstLine(Tail(s))

\* str.strip(): without the blanks at both ends
RECURSIVE Strip(_)
Strip(s) ==
    IF s = <<>> THEN <<>>
    ELSE IF Head(s) = " " THEN Strip(Tail(s))
    ELSE IF s[Len(s)] = " " THEN Strip(SubSeq(s, 1, Len(s) - 1))
    ELSE s

\* Python's None, and a returned str
NoneValue == [none |-> TRUE, val |-> <<>>]
StrValue(s) == [none |-> FALSE, val |-> s]

QInit ==
    /\ qPc = "idle"
    /\ qMethod = ""
    /\ qArgs = <<>>
    /\ qSent = ""
    /\ qReply = <<>>
    /\ qRet = NoneValue
    /\ qOutcome = "none"
    /\ nQueries = 0

\* a caller invokes the catalog method m with the arguments args: a wrong number
\* of arguments raises TypeError at the call; else the body runs into go(), line
\* 71: self.device.write(command)
QueryCall(m, args) ==
    /\ qPc = "idle"
    /\ nQueries < MaxQueries
    /\ nQueries' = nQueries + 1
    /\ qMethod' = m
    /\ qArgs' = args
    /\ qReply' = <<>>
    /\ qRet' = NoneValue
    /\ IF Len(args) # Arity(m)
         THEN /\ qOutcome' = "TypeError"
              /\ qSent' = ""
              /\ UNCHANGED qPc
         ELSE /\ qOutcome' = "none"
              /\ qSent' = GoArgument(m, args)
              /\ qPc' = "reading"

\* go, lines 72-75: received = self.device.read(100).split('\r\n')[0];
\* return received.strip(); the method returns that value, or None when its body
\* has no return statement
QueryReply(r) ==
    /\ qPc = "reading"
    /\ qReply' = r
    /\ qRet' = IF ReturnsGo(qMethod) THEN StrValue(Strip(FirstLine(r))) ELSE NoneValue
    /\ qOutcome' = "returned"
    /\ qPc' = "idle"
    /\ UNCHANGED <<qMethod, qArgs, qSent, nQueries>>

QueryNext ==
    \/ \E m \in QueryMethods, args \in ArgLists : QueryCall(m, args)
    \/ \E r \in RawReplies : QueryReply(r)

\* ------------------------------------------------------------ ITC_Updater --
\* number of poll cycles work() starts in one behaviour
MaxCycles == 2
\* number of gettoset_* calls in one behaviour
MaxStores == 1
\* number of commands the set* wrappers send in one behaviour
MaxSets == 1

VARIABLES
    itcPc,       \* position of the poller: "idle" (thread not started), "top"
                 \* (head of the while loop), "query", "emit", "sleep", "except"
                 \* (the AssertionError handler), "raised" (work() left by an
                 \* exception nothing catches)
    itcI,        \* position in sensors.items() of the next getValue call
    itcData,     \* the dict under construction in work()
    cycle,       \* number of the current iteration of the while loop
    lastSnap,    \* the dict most recently emitted on sig_Infodata, with its cycle
    nEmitted,    \* number of emissions of sig_Infodata
    workExc,     \* the exception that ended work(), "none" while it runs
    quitReq,     \* QThread.quit() has been called on the poller's thread
    quitCycle,   \* history: the value of cycle when quit() was called
    pending,     \* the attributes written by gettoset_* (Unset: never assigned)
    owed,        \* history: the attribute most recently stored between the emit
                 \* of a cycle and the start of the next one (with that cycle's
                 \* number) and not sent since at the start of a cycle, before
                 \* its first getValue (NoOwed: none)
    nStores,     \* number of gettoset_* calls so far
    sent         \* the set commands received by the instrument, in order

itcVars == <<itcPc, itcI, itcData, cycle, lastSnap, nEmitted, workExc, quitReq,
             quitCycle,
             pending, owed, nStores, sent>>

\* the keys of ITC_Updater.sensors, in their order of definition
SensorKeys ==
    <<"set_temperature", "sensor_1_temperature", "sensor_2_temperature",
      "sensor_3_temperature", "temperature", "heater_output_as_percent",
      "heater_output_as_voltage", "gas_flow_output", "proportional_band",
      "integral_action_time", "derivative_action_time">>

\* ITC_Updater.sensors: key -> register index of itc503.getValue
sensors ==
    [k \in {SensorKeys[j] : j \in 1..Len(SensorKeys)} |->
        (CHOOSE j \in 1..Len(SensorKeys) : SensorKeys[j] = k) - 1]

\* the instrument's reply to getValue(idx) during cycle c: the reading identifies
\* the register it comes from and the cycle in which it was taken
Reading(idx, c) == idx * 100 + c

\* exceptions of getValue that work() does not catch
FatalKinds == {"timeout", "closed"}

Unset == -1
NoSnap == [cycle |-> 0, data |-> <<>>]
NoOwed == [field |-> "", cycle |-> 0]

\* values a caller hands to gettoset_*
Values == {50, 150}

\* the attributes assigned by the gettoset_* methods
StoreFields ==
    {"set_temperature", "set_prop", "set_integral", "set_derivative",
     "set_sensor", "set_heater_output", "set_gas_output", "set_auto_manual",
     "sweep_parameters"}

\* attributes the set* wrappers read that no method assigns
OtherFields == {"set_GasOutput", "control_unlocked", "control_remote"}

Fields == StoreFields \cup OtherFields

\* the set* wrappers: the attributes each reads and the itc503 method it calls
Wrappers ==
    {"setNeedle", "setControl", "setTemperature", "setProportional",
     "setIntegral", "setDerivative", "setHeaterSensor", "setHeaterOutput",
     "setGasOutput", "setAutoControl", "setSweeps"}

WrapperReads(w) ==
    CASE w = "setNeedle" -> {"set_GasOutput"}
      [] w = "setControl" -> {"control_unlocked", "control_remote"}
      [] w = "setTemperature" -> {"set_temperature"}
      [] w = "setProportional" -> {"set_prop"}
      [] w = "setIntegral" -> {"set_integral"}
      [] w = "setDerivative" -> {"set_derivative"}
      [] w = "setHeaterSensor" -> {"set_sensor"}
      [] w = "setHeaterOutput" -> {"set_heater_output"}
      [] w = "setGasOutput" -> {"set_gas_output"}
      [] w = "setAutoControl" -> {"set_auto_manual"}
      [] w = "setSweeps" -> {"sweep_parameters"}

WrapperCmd(w) ==
    IF w = "setNeedle" THEN "setGasOutput" ELSE w

\* ITC_Updater.__init__ (no attribute of the set* wrappers is initialised) and a
\* thread that has not been started
ITCInit ==
    /\ itcPc = "idle"
    /\ itcI = 0
    /\ itcData = <<>>
    /\ cycle = 0
    /\ lastSnap = NoSnap
    /\ nEmitted = 0
    /\ workExc = "none"
    /\ quitReq = FALSE
    /\ quitCycle = 0
    /\ pending = [f \in Fields |-> Unset]
    /\ owed = NoOwed
    /\ nStores = 0
    /\ sent = <<>>

loopVars == <<itcPc, itcI, itcData, cycle, lastSnap, nEmitted, workExc>>
setVars == <<pending, owed, nStores, sent>>

\* thread.started.connect(work); thread.start(): work() runs app.processEvents()
\* and reaches the head of the while loop
ThreadStart ==
    /\ itcPc = "idle"
    /\ itcPc' = "top"
    /\ UNCHANGED <<itcI, itcData, cycle, lastSnap, nEmitted, workExc, quitReq, quitCycle>>
    /\ UNCHANGED setVars

\* thread.quit() on the started thread: asks the thread's event loop to exit;
\* work() never reads the request
ThreadQuit ==
    /\ itcPc # "idle"
    /\ ~quitReq
    /\ quitReq' = TRUE
    /\ quitCycle' = cycle
    /\ UNCHANGED loopVars
    /\ UNCHANGED setVars

\* a cycle start that first sends the stored temperature to the instrument
WorkCycleStartDrain ==
    /\ itcPc = "top"
    /\ cycle < MaxCycles
    /\ cycle' = cycle + 1
    /\ itcData' = <<>>
    /\ itcI' = 1
    /\ itcPc' = "query"
    /\ IF pending["set_temperature"] # Unset /\ Len(sent) < MaxSets
         THEN sent' = Append(sent, [cmd |-> "setTemperature",
                                    args |-> [f \in {"set_temperature"} |-> pending[f]]])
         ELSE UNCHANGED sent
    /\ UNCHANGED <<lastSnap, nEmitted, workExc, quitReq, quitCycle>>
    /\ UNCHANGED <<pending, owed, nStores>>

\* work, lines 56-62: while True: try: data = dict(); the for loop starts
WorkCycleStart ==
    /\ itcPc = "top"
    /\ cycle < MaxCycles
    /\ cycle' = cycle + 1
    /\ itcData' = <<>>
    /\ itcI' = 1
    /\ itcPc' = "query"
    /\ UNCHANGED <<lastSnap, nEmitted, workExc, quitReq, quitCycle>>
    /\ UNCHANGED setVars

\* a work() whose emit is inside the for loop: the dict is emitted after each read
WorkQueryOkEmitsEach ==
    /\ itcPc = "query"
    /\ LET key == SensorKeys[itcI]
       IN /\ itcData' = [k \in DOMAIN itcData \cup {key} |->
                            IF k = key THEN Reading(sensors[key], cycle) ELSE itcData[k]]
          /\ lastSnap' = [cycle |-> cycle, data |-> itcData']
    /\ nEmitted' = nEmitted + 1
    /\ IF itcI < Len(SensorKeys)
         THEN /\ itcI' = itcI + 1
              /\ UNCHANGED itcPc
         ELSE /\ itcPc' = "sleep"
              /\ UNCHANGED itcI
    /\ UNCHANGED <<cycle, workExc, quitReq, quitCycle>>
    /\ UNCHANGED setVars

\* a work() that queries the register at the key's position counted from 1
WorkQueryOkOffByOne ==
    /\ itcPc = "query"
    /\ LET key == SensorKeys[itcI]
       IN itcData' = [k \in DOMAIN itcData \cup {key} |->
                         IF k = key THEN Reading(itcI, cycle) ELSE itcData[k]]
    /\ IF itcI < Len(SensorKeys)
         THEN /\ itcI' = itcI + 1
              /\ UNCHANGED itcPc
         ELSE /\ itcPc' = "emit"
              /\ UNCHANGED itcI
    /\ UNCHANGED <<cycle, lastSnap, nEmitted, workExc, quitReq, quitCycle>>
    /\ UNCHANGED setVars

\* work, lines 63-64: data[key] = self.ITC.getValue(idx_sensor) returns
WorkQueryOk ==
    /\ itcPc = "query"
    /\ LET key == SensorKeys[itcI]
       IN itcData' = [k \in DOMAIN itcData \cup {key} |->
                         IF k = key THEN Reading(sensors[key], cycle) ELSE itcData[k]]
    /\ IF itcI < Len(SensorKeys)
         THEN /\ itcI' = itcI + 1
              /\ UNCHANGED itcPc
         ELSE /\ itcPc' = "emit"
              /\ UNCHANGED itcI
    /\ UNCHANGED <<cycle, lastSnap, nEmitted, workExc, quitReq, quitCycle>>
    /\ UNCHANGED setVars

\* work, line 63: getValue raises AssertionError, caught at line 67: the for
\* loop, the emit and the sleep of this iteration are skipped
WorkQueryAssert ==
    /\ itcPc = "query"
    /\ itcPc' = "except"
    /\ UNCHANGED <<itcI, itcData, cycle, lastSnap, nEmitted, workExc, quitReq, quitCycle>>
    /\ UNCHANGED setVars

\* getValue raises another exception and the handler of line 67 takes it too
WorkQueryRaiseCaught(kind) ==
    /\ itcPc = "query"
    /\ itcPc' = "except"
    /\ workExc' = kind
    /\ UNCHANGED <<itcI, itcData, cycle, lastSnap, nEmitted, quitReq, quitCycle>>
    /\ UNCHANGED setVars

\* work, line 63: getValue raises an exception that is no AssertionError (a visa
\* timeout, a closed resource): line 67 does not catch it, work() is left
WorkQueryRaise(kind) ==
    /\ itcPc = "query"
    /\ itcPc' = "raised"
    /\ workExc' = kind
    /\ UNCHANGED <<itcI, itcData, cycle, lastSnap, nEmitted, quitReq, quitCycle>>
    /\ UNCHANGED setVars

\* work, line 65: self.sig_Infodata.emit(data)
WorkEmit ==
    /\ itcPc = "emit"
    /\ lastSnap' = [cycle |-> cycle, data |-> itcData]
    /\ nEmitted' = nEmitted + 1
    /\ itcPc' = "sleep"
    /\ UNCHANGED <<itcI, itcData, cycle, workExc, quitReq, quitCycle>>
    /\ UNCHANGED setVars

\* work, line 66: time.sleep(1) returns; back to the head of the while loop
WorkSleep ==
    /\ itcPc = "sleep"
    /\ itcPc' = "top"
    /\ UNCHANGED <<itcI, itcData, cycle, lastSnap, nEmitted, workExc, quitReq, quitCycle>>
    /\ UNCHANGED setVars

\* work, lines 67-68: except AssertionError: pass; back to the head of the loop
WorkExcept ==
    /\ itcPc = "except"
    /\ itcPc' = "top"
    /\ UNCHANGED <<itcI, itcData, cycle, lastSnap, nEmitted, workExc, quitReq, quitCycle>>
    /\ UNCHANGED setVars

\* the poller is between the emit of a cycle's dict and the start of the next
\* iteration of the while loop
AfterPublish ==
    /\ itcPc \in {"sleep", "top"}
    /\ lastSnap.cycle = cycle
    /\ cycle > 0

\* the poller has started an iteration and has not yet called getValue in it
BeforeReads ==
    itcPc = "query" /\ itcI = 1

\* a gettoset_* that keeps a value already stored
GetToSetKeepsFirst(f, v) ==
    /\ pending' = IF pending[f] = Unset THEN [pending EXCEPT ![f] = v] ELSE pending
    /\ nStores' = nStores + 1
    /\ owed' = IF AfterPublish THEN [field |-> f, cycle |-> cycle] ELSE owed
    /\ UNCHANGED <<sent, quitReq, quitCycle>>
    /\ UNCHANGED loopVars

\* a gettoset_* that sends the value to the instrument itself
GetToSetSends(f, v) ==
    /\ pending' = [pending EXCEPT ![f] = v]
    /\ nStores' = nStores + 1
    /\ owed' = IF AfterPublish THEN [field |-> f, cycle |-> cycle] ELSE owed
    /\ sent' = Append(sent, [cmd |-> "set", args |-> [g \in {f} |-> v]])
    /\ UNCHANGED <<quitReq, quitCycle>>
    /\ UNCHANGED loopVars

\* gettoset_*(value): assigns the attribute, nothing else
GetToSet(f, v) ==
    /\ pending' = [pending EXCEPT ![f] = v]
    /\ nStores' = nStores + 1
    /\ owed' = IF AfterPublish THEN [field |-> f, cycle |-> cycle] ELSE owed
    /\ UNCHANGED <<sent, quitReq, quitCycle>>
    /\ UNCHANGED loopVars

\* set*(): reads the stored attribute(s) and calls the itc503 method with them;
\* reading an attribute never assigned raises AttributeError and nothing is
\* sent; setNeedle sends only a value within 0..100
SetWrapper(w) ==
    /\ IF \E f \in WrapperReads(w) : pending[f] = Unset
         THEN UNCHANGED <<sent, owed>>
         ELSE IF w = "setNeedle" /\ ~(0 <= pending["set_GasOutput"]
                                      /\ pending["set_GasOutput"] <= 100)
         THEN UNCHANGED <<sent, owed>>
         ELSE /\ sent' = Append(sent, [cmd |-> WrapperCmd(w),
                                       args |-> [f \in WrapperReads(w) |-> pending[f]]])
              /\ owed' = IF BeforeReads /\ owed.field \in WrapperReads(w)
                           THEN NoOwed ELSE owed
    /\ UNCHANGED <<pending, nStores, quitReq, quitCycle>>
    /\ UNCHANGED loopVars

\* the poller and the thread that runs it
LoopNext ==
    \/ ThreadStart
    \/ ThreadQuit
    \/ WorkCycleStart
    \/ WorkQueryOk
    \/ WorkQueryAssert
    \/ \E kind \in FatalKinds : WorkQueryRaise(kind)
    \/ WorkEmit
    \/ WorkSleep
    \/ WorkExcept

\* the poller with the foreground callers of gettoset_* and set*
SetNext ==
    \/ ThreadStart
    \/ WorkCycleStart
    \/ WorkQueryOk
    \/ WorkQueryAssert
    \/ \E kind \in FatalKinds : WorkQueryRaise(kind)
    \/ WorkEmit
    \/ WorkSleep
    \/ WorkExcept
    \/ \E f \in StoreFields, v \in Values : nStores < MaxStores /\ GetToSet(f, v)
    \/ \E w \in Wrappers : Len(sent) < MaxSets /\ SetWrapper(w)

\* ------------------------------------------- gettoset_* followed by set* --
\* number of gettoset_* calls in one behaviour of SpecStore
MaxStoreCalls == 2
\* number of commands sent by set* wrappers in one behaviour of SpecStore
MaxApplyCalls == 1

VARIABLES
    lastStore,   \* history: per attribute, the argument of the most recent
                 \* gettoset_* call (Unset: none)
    applied,     \* history: the attributes sent by a wrapper since they were
                 \* last stored
    stale        \* history: the (attribute, value) pairs that a gettoset_* call
                 \* replaced by another value before any wrapper had sent them,
                 \* and that have not been stored again since

obsVars == <<lastStore, applied, stale>>

ObsInit ==
    /\ lastStore = [f \in StoreFields |-> Unset]
    /\ applied = {}
    /\ stale = {}

\* a caller invokes gettoset_*(v) for attribute f
StoreCall(f, v) ==
    /\ GetToSet(f, v)
    /\ lastStore' = [lastStore EXCEPT ![f] = v]
    /\ applied' = applied \ {f}
    /\ stale' = (stale \ {<<f, v>>}) \cup
                (IF lastStore[f] \notin {Unset, v} /\ f \notin applied
                   THEN {<<f, lastStore[f]>>} ELSE {})

\* a caller invokes the set* wrapper w
ApplyCall(w) ==
    /\ SetWrapper(w)
    /\ applied' = IF sent' # sent THEN applied \cup WrapperReads(w) ELSE applied
    /\ UNCHANGED <<lastStore, stale>>

StoreNext ==
    \/ \E f \in StoreFields, v \in Values : nStores < MaxStoreCalls /\ StoreCall(f, v)
    \/ \E w \in Wrappers : Len(sent) < MaxApplyCalls /\ ApplyCall(w)

\* --------------------------------------------------------- AbstractThread --
\* number of iterations of the while loop work() starts in one behaviour
MaxIter == 4

VARIABLES
    isRunning,   \* AbstractThread.__isRunning
    atPc,        \* position of work(): "idle" (not called yet), "top" (the while
                 \* test), "running" (inside self.running()), "handler" (the
                 \* except AssertionError clause, the exception carrying a
                 \* message), "handler_noargs" (the same clause, the exception
                 \* carrying no argument), "done" (the while loop was left by
                 \* its test), "raised" (work() left by an exception)
    nStarted,    \* number of calls of self.running() so far
    nCompleted,  \* number of those calls that have returned or raised
    nAssertion,  \* number of emissions of sig_assertion
    stopSeen     \* history: NoStop, or the values of nStarted and nCompleted when
                 \* stop() first cleared the flag

atVars == <<isRunning, atPc, nStarted, nCompleted, nAssertion, stopSeen>>

NoStop == [started |-> -1, completed |-> -1]

\* the ways a call of self.running() ends: it returns, it raises an
\* AssertionError that carries a message (raise AssertionError('...'), assert
\* cond, '...'), it raises one that carries none (assert cond), it raises
\* anything else (the base class raises NotImplementedError)
RunningOutcomes == {"return", "AssertionError", "AssertionErrorNoArgs", "other"}

\* AbstractThread.__init__: self.__isRunning = True
ATInit ==
    /\ isRunning = TRUE
    /\ atPc = "idle"
    /\ nStarted = 0
    /\ nCompleted = 0
    /\ nAssertion = 0
    /\ stopSeen = NoStop

\* work() is called (thread.started, or a direct call)
ATWorkCall ==
    /\ atPc = "idle"
    /\ atPc' = "top"
    /\ UNCHANGED <<isRunning, nStarted, nCompleted, nAssertion, stopSeen>>

\* a while loop that calls self.running() whatever the flag says
ATWorkTestIgnoresFlag ==
    /\ atPc = "top"
    /\ nStarted < MaxIter
    /\ atPc' = "running"
    /\ nStarted' = nStarted + 1
    /\ UNCHANGED <<isRunning, nCompleted, nAssertion, stopSeen>>

\* work, line 22: while self.__isRunning: the test, and on True the entry into
\* the try block and the call of self.running()
ATWorkTest ==
    /\ atPc = "top"
    /\ IF isRunning
         THEN /\ nStarted < MaxIter
              /\ atPc' = "running"
              /\ nStarted' = nStarted + 1
         ELSE /\ atPc' = "done"
              /\ UNCHANGED nStarted
    /\ UNCHANGED <<isRunning, nCompleted, nAssertion, stopSeen>>

\* work, lines 23-26: self.running() ends
ATRunningEnds(outcome_) ==
    /\ atPc = "running"
    /\ nCompleted' = nCompleted + 1
    /\ atPc' = CASE outcome_ = "return" -> "top"
                 [] outcome_ = "AssertionError" -> "handler"
                 [] outcome_ = "AssertionErrorNoArgs" -> "handler_noargs"
                 [] OTHER -> "raised"
    /\ UNCHANGED <<isRunning, nStarted, nAssertion, stopSeen>>

\* work, lines 25-26: except AssertionError: self.sig_assertion.emit(...)
ATHandler ==
    /\ atPc = "handler"
    /\ nAssertion' = nAssertion + 1
    /\ atPc' = "top"
    /\ UNCHANGED <<isRunning, nStarted, nCompleted, stopSeen>>

\* work, line 26, for an AssertionError without arguments: assertion.args is the
\* empty tuple, assertion.args[0] raises IndexError inside the handler; nothing
\* is emitted and work() is left
ATHandlerRaises ==
    /\ atPc = "handler_noargs"
    /\ atPc' = "raised"
    /\ UNCHANGED <<isRunning, nStarted, nCompleted, nAssertion, stopSeen>>

\* stop(): self.__isRunning = False, called from another thread at any moment
\* (a second call assigns the same value and changes nothing)
ATStop ==
    /\ isRunning
    /\ isRunning' = FALSE
    /\ stopSeen' = [started |-> nStarted, completed |-> nCompleted]
    /\ UNCHANGED <<atPc, nStarted, nCompleted, nAssertion>>

ATNext ==
    \/ ATWorkCall
    \/ ATWorkTest
    \/ \E o \in RunningOutcomes : ATRunningEnds(o)
    \/ ATHandler
    \/ ATHandlerRaises
    \/ ATStop

\* ------------------------------------------------------------- mainWindow --
\* number of run_ITC(True) events in one behaviour
MaxStarts == 2
\* number of run_ITC(False) events in one behaviour
MaxStops == 2
\* number of snapshots the pollers emit in one behaviour
MaxEmits == 2
VARIABLES
    mwCall,      \* what the GUI thread is doing: "idle" (in its event loop) or
                 \* "wait" (inside run_ITC(False), in QThread.wait(), line 99)
    threadsITC,  \* self.threads['ITC']: NoEntry, or the number of the (worker,
                 \* thread) pair stored there
    nStarts,     \* number of run_ITC(True) events so far; the k-th one that gets
                 \* past itc503() creates itc503 instance k, worker k and thread k
    thrState,    \* per thread: "none" (not created), "created" (QThread() made,
                 \* not started), "working" (started, inside work()), "evloop"
                 \* (work() was left by an exception, the thread runs its event
                 \* loop), "finished"
    thrQuit,     \* per thread: quit() has been called on it
    thrEmitted,  \* per worker: number of emissions of sig_Infodata
    quitEmitted, \* history, per thread: thrEmitted when quit() was first called
    queue,       \* snapshots emitted and not yet handed to store_data_itc (the
                 \* GUI thread's queued slot calls, in order of emission)
    dataHasITC,  \* 'ITC' in self.data
    dataITC,     \* self.data['ITC'] (the empty list while the entry is absent)
    nDelivered,  \* number of calls of store_data_itc so far
    mwExc,       \* the exception that left the most recent slot call of the GUI
                 \* thread, "none" if it returned
    checked,     \* action_run_ITC.isChecked()
    nStops,      \* number of run_ITC(False) events so far
    lastRead,    \* history: worker and itc503 instance of the latest getValue
    lastSet      \* history: worker and itc503 instance of the latest set* call

mwVars == <<mwCall, threadsITC, nStarts, thrState, thrQuit, thrEmitted,
            quitEmitted, queue, dataHasITC, dataITC, nDelivered, mwExc, checked, nStops,
            lastRead, lastSet>>

\* a key that a dict does not hold
NoEntry == 0
\* the itc503 instance made at import of ITC_control (ITC = itc503(), line 11)
GlobalITC == 0
\* what list.append receives from dict.update
NoneEntry == [snap |-> [src |-> 0, n |-> 0], time |-> 0]
NoTarget == [worker |-> 0, inst |-> -1]

Workers == 1..MaxStarts

\* the itc503 instance a worker keeps in self.ITC: run_ITC hands the k-th worker
\* the instance made by the same call
SelfITC(w) == w

\* outcomes of the constructor itc503() in run_ITC
VisaOutcomes == {"ok", "VisaIOError"}

\* mainWindow.__init__: self.threads holds only 'mainworker'; hasEntry tells
\* whether self.data holds the entry 'ITC' (with the empty list)
MWInitWith(hasEntry) ==
    /\ mwCall = "idle"
    /\ threadsITC = NoEntry
    /\ nStarts = 0
    /\ thrState = [w \in Workers |-> "none"]
    /\ thrQuit = [w \in Workers |-> FALSE]
    /\ thrEmitted = [w \in Workers |-> 0]
    /\ quitEmitted = [w \in Workers |-> 0]
    /\ queue = <<>>
    /\ dataHasITC = hasEntry
    /\ dataITC = <<>>
    /\ nDelivered = 0
    /\ mwExc = "none"
    /\ checked = FALSE
    /\ nStops = 0
    /\ lastRead = NoTarget
    /\ lastSet = NoTarget

\* mainWindow.__init__, line 55: self.data = dict()
MWInit == MWInitWith(FALSE)

\* QThread.quit() on thread w: a thread inside work() takes no notice before
\* work() is left; a thread in its event loop leaves it and finishes
QuitEffect(w) ==
    [thrState EXCEPT ![w] = IF @ = "evloop" THEN "finished" ELSE @]

\* QThread.wait() returns at once for a thread that is not running
WaitBlocks(st) == st \in {"working", "evloop"}

\* run_ITC(True), lines 74-93; v is the outcome of itc503()
RunITCTrue(v) ==
    /\ mwCall = "idle"
    /\ nStarts < MaxStarts
    /\ nStarts' = nStarts + 1
    /\ LET w == nStarts + 1
       IN IF v = "VisaIOError"
            THEN /\ checked' = FALSE
                 /\ mwExc' = "none"
                 /\ UNCHANGED <<threadsITC, thrState>>
            ELSE /\ threadsITC' = w
                 /\ IF ~dataHasITC
                      THEN /\ mwExc' = "KeyError"
                           /\ thrState' = [thrState EXCEPT ![w] = "created"]
                           /\ checked' = TRUE
                      ELSE /\ mwExc' = "none"
                           /\ thrState' = [thrState EXCEPT ![w] = "working"]
                           /\ checked' = TRUE
    /\ UNCHANGED <<mwCall, thrQuit, thrEmitted, quitEmitted, queue, dataHasITC,
                   dataITC, nDelivered, nStops, lastRead, lastSet>>

\* run_ITC(False), lines 96-99, up to the point where wait() returns or blocks
RunITCFalse ==
    /\ mwCall = "idle"
    /\ nStops < MaxStops
    /\ nStops' = nStops + 1
    /\ checked' = FALSE
    /\ IF threadsITC = NoEntry
         THEN /\ mwExc' = "KeyError"
              /\ UNCHANGED <<mwCall, thrState, thrQuit, quitEmitted>>
         ELSE /\ mwExc' = "none"
              /\ thrState' = QuitEffect(threadsITC)
              /\ thrQuit' = [thrQuit EXCEPT ![threadsITC] = TRUE]
              /\ quitEmitted' = IF thrQuit[threadsITC] THEN quitEmitted
                                ELSE [quitEmitted EXCEPT ![threadsITC] =
                                          thrEmitted[threadsITC]]
              /\ mwCall' = IF WaitBlocks(thrState'[threadsITC]) THEN "wait" ELSE "idle"
    /\ UNCHANGED <<threadsITC, nStarts, thrEmitted, queue, dataHasITC, dataITC,
                   nDelivered, lastRead, lastSet>>

\* run_ITC(False), line 99: wait() returns, the thread has finished
RunITCWaitReturn ==
    /\ mwCall = "wait"
    /\ thrState[threadsITC] = "finished"
    /\ mwCall' = "idle"
    /\ UNCHANGED <<threadsITC, nStarts, thrState, thrQuit, thrEmitted, quitEmitted,
                   queue, dataHasITC, dataITC, nDelivered, mwExc, checked, nStops,
                   lastRead, lastSet>>

\* number of snapshots emitted so far by all workers
EmittedAll == nDelivered + Len(queue)

\* ITC_Updater.work of worker w completes a cycle: it has read every sensor
\* through self.ITC and emits the dict; the connection of line 86 queues a call
\* of store_data_itc for the GUI thread
PollerEmit(w) ==
    /\ thrState[w] = "working"
    /\ EmittedAll < MaxEmits
    /\ thrEmitted' = [thrEmitted EXCEPT ![w] = @ + 1]
    /\ queue' = Append(queue, [src |-> w, n |-> thrEmitted[w] + 1])
    /\ lastRead' = [worker |-> w, inst |-> SelfITC(w)]
    /\ UNCHANGED <<mwCall, threadsITC, nStarts, thrState, thrQuit, quitEmitted,
                   dataHasITC, dataITC, nDelivered, mwExc, checked, nStops, lastSet>>

\* ITC_Updater.work of worker w is left by an exception of getValue that is no
\* AssertionError: the thread goes on to its event loop, which returns at once
\* if quit() has been called
PollerRaise(w) ==
    /\ thrState[w] = "working"
    /\ thrState' = [thrState EXCEPT ![w] = IF thrQuit[w] THEN "finished" ELSE "evloop"]
    /\ lastRead' = [worker |-> w, inst |-> SelfITC(w)]
    /\ UNCHANGED <<mwCall, threadsITC, nStarts, thrQuit, thrEmitted, quitEmitted,
                   queue, dataHasITC, dataITC, nDelivered, mwExc, checked, nStops,
                   lastSet>>

\* the dict with the time stamp added: what data holds after data.update(...)
Stamped(snap, t) == [snap |-> snap, time |-> t]

\* store_data_itc(data), lines 101-103, run by the GUI thread's event loop:
\* data.update(...) adds 'time' to the dict and returns None, and None is what
\* append receives
StoreDataITC ==
    /\ mwCall = "idle"
    /\ queue # <<>>
    /\ nDelivered' = nDelivered + 1
    /\ queue' = Tail(queue)
    /\ IF dataHasITC
         THEN /\ dataITC' = Append(dataITC, NoneEntry)
              /\ mwExc' = "none"
         ELSE /\ mwExc' = "KeyError"
              /\ UNCHANGED dataITC
    /\ UNCHANGED <<mwCall, threadsITC, nStarts, thrState, thrQuit, thrEmitted,
                   quitEmitted, dataHasITC, checked, nStops, lastRead, lastSet>>

\* a set* wrapper of worker w (lines 78-144) called with its attribute stored:
\* each calls the itc503 method on the module name ITC, not on self.ITC
SetCall(w) ==
    /\ thrState[w] # "none"
    /\ lastSet' = [worker |-> w, inst |-> GlobalITC]
    /\ UNCHANGED <<mwCall, threadsITC, nStarts, thrState, thrQuit, thrEmitted,
                   quitEmitted, queue, dataHasITC, dataITC, nDelivered, mwExc,
                   checked, nStops, lastRead>>

MWNext ==
    \/ \E v \in VisaOutcomes : RunITCTrue(v)
    \/ RunITCFalse
    \/ RunITCWaitReturn
    \/ \E w \in Workers : PollerEmit(w)
    \/ \E w \in Workers : PollerRaise(w)
    \/ StoreDataITC
    \/ \E w \in Workers : SetCall(w)

\* --------------------------------------------------------- specifications --
vars == <<lsVars, itcVars, atVars, mwVars, obsVars, connVars, instVars, qVars>>

Init == LSInit /\ ITCInit /\ ATInit /\ MWInit /\ ObsInit /\ ConnInit /\ InstInit /\ QInit

\* the command channel used by NThreads callers
SpecLS == Init /\ [][LSNext /\ UNCHANGED <<itcVars, atVars, mwVars, obsVars, connVars, instVars, qVars>>]_vars

\* the ITC poller and its thread
SpecITC == Init /\ [][LoopNext /\ UNCHANGED <<lsVars, atVars, mwVars, obsVars, connVars, instVars, qVars>>]_vars

\* the ITC poller with its foreground callers
SpecITCSet == Init /\ [][SetNext /\ UNCHANGED <<lsVars, atVars, mwVars, obsVars, connVars, instVars, qVars>>]_vars

\* AbstractThread.work and a caller of stop()
SpecAT == Init /\ [][ATNext /\ UNCHANGED <<lsVars, itcVars, mwVars, obsVars, connVars, instVars, qVars>>]_vars

\* Line 81 of run_ITC reads self.data['ITC'] before any statement under src/ has
\* made that entry. The window is therefore considered both as constructed (no
\* entry) and with the empty list in place, the state that lines 81-84 and
\* store_data_itc are written for.
InitMW == LSInit /\ ITCInit /\ ATInit /\ ObsInit /\ ConnInit /\ InstInit /\ QInit /\ \E hasEntry \in BOOLEAN : MWInitWith(hasEntry)

\* mainWindow.run_ITC, the poller threads it makes and store_data_itc
SpecMW == InitMW /\ [][MWNext /\ UNCHANGED <<lsVars, itcVars, atVars, obsVars, connVars, instVars, qVars>>]_vars

\* the callers of gettoset_* and set* on one ITC_Updater whose thread is not started
SpecStore == Init /\ [][StoreNext /\ UNCHANGED <<lsVars, atVars, mwVars, connVars, instVars, qVars>>]_vars

\* go() calls on NInstances LAKESHORE350 objects
SpecInst == Init /\ [][InstNext /\ UNCHANGED <<lsVars, itcVars, atVars, mwVars, obsVars, connVars, qVars>>]_vars

\* LAKESHORE350.connect with the go() and initialize() calls it makes
SpecConnect == Init /\ [][ConnNext /\ UNCHANGED <<itcVars, atVars, mwVars, obsVars, instVars, qVars>>]_vars

\* callers of the Query methods of the catalog
SpecQuery == Init /\ [][QueryNext /\ UNCHANGED <<lsVars, itcVars, atVars, mwVars, obsVars, connVars, instVars>>]_vars

\* ------------------------------------------------ claims on LAKESHORE350 --
InCall(t) == pc[t] # "idle"
Waiting(t) == pc[t] \in {"go_acquire", "init_acquire"}

\* C1: the transport events form complete exchanges: the device.write of a go
\* call is followed on the transport by that same call's device.read, with no
\* write or read of another go/initialize call in between, and every read
\* directly follows the write of its own call.
C1_ExchangesNotInterleaved ==
    Len(wire) = 2 =>
        /\ (wire[1].kind = "go" /\ wire[1].op = "write") =>
               (wire[2].call = wire[1].call /\ wire[2].op = "read")
        /\ wire[2].op = "read" =>
               (wire[1].call = wire[2].call /\ wire[1].op = "write")

\* C1 witness: a go call completed its write+read pair while another thread,
\* which had entered its own call earlier, was waiting for the lock.
C1_Witness ==
    \E t, u \in Threads :
        /\ t # u
        /\ pc[t] = "go_release"
        /\ Waiting(u)
        /\ callOf[u] < callOf[t]
        /\ Len(wire) = 2
        /\ wire[1] = [call |-> callOf[t], th |-> t, op |-> "write", kind |-> "go",
                       data |-> cmdOf[t]]
        /\ wire[2].op = "read" /\ wire[2].call = callOf[t]

\* C2: whenever no go/initialize call is in progress, ComLock is not held
\* (the lock is released on every exit path, also when write or read raises).
C2_LockFreeWhenNoCall ==
    (\A t \in Threads : ~InCall(t)) => ComLock = NoThread

\* C3: after a call has failed with a timeout, a later call that waits for the
\* transport is not blocked forever: while it waits, some call in progress
\* (the lock holder, or the waiting call itself) is able to take its next step.
C3_CallAfterTimeoutProceeds ==
    \A t \in Threads :
        (failedCall # 0 /\ callOf[t] > failedCall /\ Waiting(t))
            => ENABLED (\E u \in Threads : CallStep(u))

\* ------------------------------------------------- claims on ITC_Updater --
SensorKeySet == {SensorKeys[j] : j \in 1..Len(SensorKeys)}

\* a getValue call of the current cycle has failed and the cycle is over
CycleFailed == itcPc \in {"except", "raised"}

\* C4 (as stated): a value stored by gettoset_* between the emit of cycle N and
\* the start of cycle N+1 is sent to the instrument during cycle N+1 before any of
\* that cycle's getValue calls: once cycle N+1 has made its first read, no such
\* value is still waiting to be sent.
C4_StoredValueSentBeforeNextReads ==
    ~(/\ owed # NoOwed
      /\ cycle = owed.cycle + 1
      /\ itcPc = "query"
      /\ itcI > 1)

\* C4 (amended): work() sends no set command. The instrument receives a stored
\* value only when a set* wrapper is invoked: that step appends exactly one
\* command, carrying the value(s) stored at that moment in the attribute(s) the
\* wrapper reads, and leaves the poll loop and the stored values as they are.
C4_OnlyWrappersSend ==
    [][sent' # sent =>
          /\ UNCHANGED <<loopVars, pending>>
          /\ \E w \in Wrappers :
                /\ \A f \in WrapperReads(w) : pending[f] # Unset
                /\ sent' = Append(sent, [cmd |-> WrapperCmd(w),
                                         args |-> [f \in WrapperReads(w) |-> pending[f]]])
      ]_vars

\* C4 witness: a value stored after the emit of cycle N was sent by its wrapper,
\* and not at the start of cycle N+1: that cycle is already past its first read.
C4_Witness ==
    /\ owed # NoOwed
    /\ cycle = owed.cycle + 1
    /\ itcPc = "query"
    /\ itcI > 1
    /\ Len(sent) = 1
    /\ owed.field \in DOMAIN sent[1].args
    /\ sent[1].args[owed.field] = pending[owed.field]

\* C5: when the read of one channel has failed in a cycle, every other channel
\* has been queried in that cycle and a snapshot of that cycle has been emitted.
C5_FailedReadKeepsCycle ==
    CycleFailed =>
        /\ \A j \in 1..Len(SensorKeys) : j # itcI => j \in 1..(itcI - 1)
        /\ lastSnap.cycle = cycle

\* C6: when the read of a channel has failed in a cycle, the snapshot emitted for
\* that cycle has every key, and holds for the failed channel a value read from
\* that channel in an earlier cycle or an invalid (negative) sentinel.
C6_FailedChannelKeepsPreviousValue ==
    CycleFailed =>
        /\ lastSnap.cycle = cycle
        /\ DOMAIN lastSnap.data = SensorKeySet
        /\ LET key == SensorKeys[itcI]
               v == lastSnap.data[key]
           IN \/ v < 0
              \/ \E c \in 1..(cycle - 1) : v = Reading(sensors[key], c)

\* C7: a read timeout does not end the poll loop: after it, work() is still
\* running.
C7_TimeoutKeepsPolling ==
    workExc = "timeout" => itcPc # "raised"

\* C8 (as stated): when getValue fails with a closed transport the loop stops,
\* makes no further query, and the step that stops it delivers exactly one
\* notification to the consumer.
C8_FatalReportedOnce ==
    /\ [](workExc = "closed" => itcPc = "raised")
    /\ [][workExc = "closed" => UNCHANGED loopVars]_vars
    /\ [][(workExc # "closed" /\ workExc' = "closed") => nEmitted' = nEmitted + 1]_vars

\* C8 (amended): when getValue fails with a closed transport the exception leaves
\* work(): the loop has stopped, it makes no further query, and no signal at all
\* is emitted to the consumer, neither by the failing step nor afterwards.
C8_FatalEndsLoopSilently ==
    /\ [](workExc = "closed" => itcPc = "raised")
    /\ [][workExc = "closed" => UNCHANGED loopVars]_vars
    /\ [][(workExc # "closed" /\ workExc' = "closed") =>
             (nEmitted' = nEmitted /\ lastSnap' = lastSnap)]_vars

\* C8 witness: the transport was closed during the second cycle, after the first
\* cycle's snapshot had been emitted, and quit() was called after that.
C8_Witness ==
    /\ workExc = "closed"
    /\ itcPc = "raised"
    /\ cycle = 2
    /\ itcI > 1
    /\ nEmitted = 1
    /\ quitReq

\* C10: a stop request is honored at the next cycle boundary: the loop starts at
\* most the one cycle whose boundary the request may have missed, and emits no
\* snapshot of a later cycle.
C10_StopHonoredAtBoundary ==
    quitReq => (cycle <= quitCycle + 1 /\ lastSnap.cycle <= quitCycle + 1)

\* ---------------------------------------------- claims on AbstractThread --
\* C11: a stop request is honored only at a cycle boundary. The while loop is
\* left by its test only, at the head of an iteration and with the flag cleared;
\* whenever work() is over, every running() call that was started has ended (by
\* returning or by raising), in particular the one in flight when stop() was
\* called; and once stop() has cleared the flag no further running() call starts.
C11_StopOnlyAtCycleBoundary ==
    /\ [][(atPc # "done" /\ atPc' = "done") => (atPc = "top" /\ ~isRunning)]_vars
    /\ [](atPc \in {"done", "raised"} => nCompleted = nStarted)
    /\ [](stopSeen # NoStop => nStarted = stopSeen.started)
    /\ [][(~isRunning /\ atPc = "running") => atPc' # "done"]_vars

\* C11 witness: stop() was called while the second running() call was in flight;
\* that call has ended since, and the loop has been left by its test.
C11_Witness ==
    /\ atPc = "done"
    /\ stopSeen = [started |-> 2, completed |-> 1]
    /\ nStarted = 2
    /\ nCompleted = 2

Instances == {GlobalITC} \cup {SelfITC(w) : w \in {x \in Workers : thrState[x] # "none"}}

\* C13: there is exactly one itc503 instance for the instrument, and every set*
\* call and every getValue of a worker goes to the instance the worker was
\* constructed with.
C13_OneInstanceForReadsAndSets ==
    /\ Cardinality(Instances) = 1
    /\ lastSet # NoTarget => lastSet.inst = SelfITC(lastSet.worker)
    /\ lastRead # NoTarget => lastRead.inst = SelfITC(lastRead.worker)

C15_LastWriterWins ==
    [][sent' # sent =>
          /\ Len(sent') = Len(sent) + 1
          /\ LET c == sent'[Len(sent')]
             IN \A f \in DOMAIN c.args :
                    /\ c.args[f] = lastStore[f]
                    /\ <<f, c.args[f]>> \notin stale
      ]_vars

\* C15 witness: an attribute was stored twice with different values before any
\* wrapper had sent it, and the wrapper then sent the second value.
C15_Witness ==
    /\ Len(sent) = 1
    /\ \E f \in DOMAIN sent[1].args :
          /\ f \in applied
          /\ sent[1].args[f] = lastStore[f]
          /\ \E v \in Values : v # lastStore[f] /\ <<f, v>> \in stale

\* C16: a gettoset_* call performs no transport operation and does not wait for
\* the poller: the step changes the value stored for one attribute and nothing
\* else (no command is sent, the poll loop and its reads are where they were, no
\* other attribute changes), and it can be taken at every position of the poller.
C16_GetToSetOnlyStores ==
    /\ [][nStores' # nStores =>
             /\ UNCHANGED <<sent, loopVars, quitReq, quitCycle>>
             /\ \E f \in StoreFields, v \in Values :
                    pending' = [pending EXCEPT ![f] = v]]_vars
    /\ [](nStores < MaxStores =>
             \A f \in StoreFields, v \in Values : ENABLED GetToSet(f, v))

\* C16 witness: a value was stored while the poller was between two cycles; the
\* poller has gone on to its next reads, nothing was sent and no other attribute
\* holds a value.
C16_Witness ==
    /\ owed # NoOwed
    /\ nStores = 1
    /\ sent = <<>>
    /\ itcPc = "query"
    /\ itcI > 1
    /\ pending[owed.field] # Unset
    /\ \A f \in Fields \ {owed.field} : pending[f] = Unset

\* ------------------------------------------- claims on the poll cycle -------
\* C17: in a completed cycle the snapshot is emitted exactly once, after every
\* sensor of the table has been read in that cycle. An emission happens at the
\* emit statement only, with all the sensors read and no snapshot of the cycle
\* emitted before; while the cycle is still reading, no snapshot of it exists;
\* when the cycle sleeps, its snapshot is the latest one.
C17_EmitOnceAfterAllReads ==
    /\ [][nEmitted' # nEmitted \/ lastSnap' # lastSnap =>
             /\ itcPc = "emit"
             /\ DOMAIN itcData = SensorKeySet
             /\ lastSnap.cycle < cycle
             /\ nEmitted' = nEmitted + 1
             /\ lastSnap' = [cycle |-> cycle, data |-> itcData]]_vars
    /\ [](itcPc \in {"query", "emit"} => lastSnap.cycle < cycle)
    /\ [](itcPc = "sleep" => lastSnap.cycle = cycle)

\* C17 witness: two cycles have completed and each emitted its snapshot.
C17_Witness ==
    /\ itcPc = "sleep"
    /\ cycle = 2
    /\ nEmitted = 2
    /\ lastSnap.cycle = 2

\* the dict a cycle c must emit: every key of the sensors table with the reply of
\* its register (0 for set_temperature up to 10 for derivative_action_time)
ExpectedSnapshot(c) ==
    [set_temperature |-> Reading(0, c),
     sensor_1_temperature |-> Reading(1, c),
     sensor_2_temperature |-> Reading(2, c),
     sensor_3_temperature |-> Reading(3, c),
     temperature |-> Reading(4, c),
     heater_output_as_percent |-> Reading(5, c),
     heater_output_as_voltage |-> Reading(6, c),
     gas_flow_output |-> Reading(7, c),
     proportional_band |-> Reading(8, c),
     integral_action_time |-> Reading(9, c),
     derivative_action_time |-> Reading(10, c)]

\* C18: every snapshot emitted on sig_Infodata has exactly the keys of the
\* sensors table, each with the value read from that key's register; a dict with
\* a key missing is never emitted.
C18_SnapshotHasAllKeys ==
    lastSnap # NoSnap =>
        /\ DOMAIN lastSnap.data = DOMAIN ExpectedSnapshot(lastSnap.cycle)
        /\ \A k \in DOMAIN lastSnap.data :
               lastSnap.data[k] = ExpectedSnapshot(lastSnap.cycle)[k]

\* C18 witness: the first cycle failed with an AssertionError after some reads,
\* and the only snapshot emitted is the complete one of the second cycle.
C18_Witness ==
    /\ nEmitted = 1
    /\ lastSnap.cycle = 2
    /\ Cardinality(DOMAIN lastSnap.data) = 11
    /\ lastSnap.data["derivative_action_time"] = Reading(10, 2)

\* ------------------------------------------------ claims on connect() ------
\* the step ends the connect() call of thread t, and every device.write/read of
\* the call succeeded: the identification exchange and the four writes of
\* initialize()
ConnectSucceeds(t) ==
    /\ connPc[t] # "none"
    /\ connPc'[t] = "none"
    /\ Len(connLog[t]) = 2 + Len(InitInputs)

\* C20: on a successful connect the first exchange on the transport is the
\* write and read of '*IDN?', before any write of initialize(); connect returns
\* that reply as the identity, and connected is True and status 'connected'.
C20_ConnectIdentifiesFirst ==
    /\ [](\A t \in Threads :
            /\ Len(connLog[t]) >= 1 =>
                   connLog[t][1] = [op |-> "write", kind |-> "go", data |-> "*IDN?"]
            /\ Len(connLog[t]) >= 2 =>
                   connLog[t][2] = [op |-> "read", kind |-> "go", data |-> "*IDN?"]
            /\ \A i \in 1..Len(connLog[t]) : connLog[t][i].kind = "init" => i > 2)
    /\ [][\A t \in Threads :
            ConnectSucceeds(t) =>
                /\ connOutcome'[t] = "returned"
                /\ connRet'[t] = ReplyTo("*IDN?")
                /\ connected'
                /\ status' = "connected"]_vars

\* the step ends the connect() call of thread t because its go() or initialize()
\* call was left by an exception of the transport
ConnectFails(t) ==
    /\ connPc[t] # "none"
    /\ connPc'[t] = "none"
    /\ outcome[t] = "raised"

\* C21 (as stated): when the transport fails during connect (a timeout, a device
\* that is not found), connect raises ConnectionError, does not return normally,
\* and leaves connected False.
C21_ConnectRaisesConnectionError ==
    [][\A t \in Threads :
          ConnectFails(t) =>
              /\ connOutcome'[t] = "raised"
              /\ connExc'[t] = "ConnectionError"
              /\ ~connected']_vars

\* C21 (amended): connect raises no ConnectionError. When go() or initialize() is
\* left by socket.timeout, connect returns normally with 'none' and leaves
\* connected False, status 'socket timeout' and identity 'none'; any other
\* exception of the transport leaves connect as it is, with identity, status and
\* connected as they were when it was raised.
C21_TimeoutReturnsNone ==
    /\ [][\A t \in Threads :
            ConnectFails(t) =>
                \/ /\ connOutcome'[t] = "returned"
                   /\ connRet'[t] = "none"
                   /\ ~connected'
                   /\ status' = "socket timeout"
                   /\ identity' = "none"
                \/ /\ connOutcome'[t] = "raised"
                   /\ connExc'[t] \in TransportErrors \ {"socket.timeout"}
                   /\ UNCHANGED <<identity, status, connected>>]_vars
    /\ [](\A t \in Threads : connExc[t] # "ConnectionError")

\* C21 witness: a connect() whose identification exchange succeeded timed out in
\* initialize() and returned 'none', with connected reset to False.
C21_Witness ==
    \E t \in Threads :
        /\ connOutcome[t] = "returned"
        /\ connRet[t] = "none"
        /\ Len(connLog[t]) >= 2
        /\ ~connected
        /\ status = "socket timeout"
        /\ identity = "none"

\* ------------------------------------------- claims on the command catalog --
\* the commands of Commands whose docstring documents a reply ('Returned:')
QueryCommands == {"*IDN?"}

\* C22: for a write-only command go() performs the write and no read on the
\* transport: a call is at its device.read only with a command that expects a
\* reply.
C22_WriteOnlyDoesNotRead ==
    \A t \in Threads : pc[t] = "go_read" => cmdOf[t] \in QueryCommands

\* C23: LAKESHORE350 objects are independent: a go() call waits at acquire only
\* while the ComLock of its own instance is held; a call in progress on another
\* instance, or a lock left held there, never keeps it waiting.
C23_InstancesIndependent ==
    \A t \in Threads :
        (instPc[t] = "go_acquire" /\ instLock[instOf[t]] = NoThread)
            => ENABLED InstGoAcquire(t)

\* C23 witness: a call waits to acquire the free lock of one instance while the
\* lock of another instance is held, left behind by a call that failed.
C23_Witness ==
    \E t, u \in Threads, i \in LSInstances :
        /\ t # u
        /\ instPc[t] = "go_acquire"
        /\ instOf[t] # i
        /\ instLock[instOf[t]] = NoThread
        /\ instLock[i] = u
        /\ instPc[u] = "idle"

\* ------------------------------------------- claims on the set* wrappers ----
\* C24: every set* wrapper has a matching gettoset_* method: every attribute the
\* wrapper reads is one that a gettoset_* method stores, and once a value has
\* been stored for each of them, invoking the wrapper sends a command carrying
\* exactly the values most recently stored.
C24_EveryWrapperSendsStored ==
    \A w \in Wrappers :
        /\ WrapperReads(w) \subseteq StoreFields
        /\ (\A f \in WrapperReads(w) \cap StoreFields : lastStore[f] # Unset)
               => ENABLED (/\ ApplyCall(w)
                           /\ sent' = Append(sent,
                                  [cmd |-> WrapperCmd(w),
                                   args |-> [f \in WrapperReads(w) |-> lastStore[f]]]))

\* C25: two poll cycles never run back to back without the end-of-cycle sleep:
\* every step by which a cycle, a cycle with a failed read included, comes back
\* to the head of the while loop is the return of the sleep of line 66.
C25_EveryCycleEndsWithSleep ==
    [][(itcPc' = "top" /\ itcPc # "top" /\ cycle >= 1) => itcPc = "sleep"]_vars

\* ------------------------------------------- claims on the Query methods -----
\* C26: a Query method called as its docstring documents it (with the input to
\* query where the docstring names one, with no argument otherwise) sends the
\* documented mnemonic followed by the caller's argument and returns the
\* stripped reply; the Kelvin query for input c sends 'KRDG? c' and returns the
\* reading.
C26_QuerySendsMnemonicReturnsReply ==
    (/\ qPc = "idle"
     /\ nQueries > 0
     /\ Len(qArgs) = (IF DocHasInput(qMethod) THEN 1 ELSE 0))
        => /\ qOutcome = "returned"
           /\ qSent = (IF DocHasInput(qMethod)
                         THEN DocMnemonic(qMethod) \o " " \o qArgs[1]
                         ELSE DocMnemonic(qMethod))
           /\ qRet = StrValue(Strip(FirstLine(qReply)))

\* ------------------------------------------- claims on the gas output -------
\* C27: every gas-output command sent to the instrument, through setNeedle as
\* well as through setGasOutput, carries a value within 0..100; a stored value
\* outside that range produces no device command.
C27_GasOutputWithinRange ==
    \A i \in 1..Len(sent) :
        sent[i].cmd = "setGasOutput"
            => \A f \in DOMAIN sent[i].args :
                   0 <= sent[i].args[f] /\ sent[i].args[f] <= 100

\* ------------------------------------------- claims on the connection state --
\* C28: whenever no connect() is executing, connected is True exactly when
\* status is 'connected'; and a connect() that its timeout handler ends, at
\* whichever step the timeout was raised, leaves connected False, status
\* 'socket timeout' and identity 'none'.
C28_ConnectedIffStatus ==
    /\ []((\A t \in Threads : connPc[t] = "none")
             => (connected <=> status = "connected"))
    /\ [][\A t \in Threads :
            (ConnectFails(t) /\ connExc'[t] = "none")
                => /\ ~connected'
                   /\ status' = "socket timeout"
                   /\ identity' = "none"]_vars

\* C28 witness: a first connect() was left with connected True and status
\* 'connected'; a second one then timed out and reset both, and no connect() is
\* executing.
C28_Witness ==
    \E t, u \in Threads :
        /\ t # u
        /\ connExc[u] = "AttributeError"
        /\ connOutcome[t] = "returned"
        /\ connRet[t] = "none"
        /\ ~connected
        /\ status = "socket timeout"
        /\ \A v \in Threads : connPc[v] = "none"

\* ------------------------------------------- claims on the run_ITC handler ---
\* C29: whatever the sequence of run_ITC(True) and run_ITC(False) events (a stop
\* before any start, a first start while data['ITC'] does not exist, a start
\* that fails with VisaIOError followed by a stop), the handler completes
\* without an unhandled error, and once a start has created its poller
\* data['ITC'] exists.
C29_RunITCNeverRaises ==
    /\ mwExc = "none"
    /\ \A w \in Workers : thrState[w] # "none" => dataHasITC

\* ------------------------------------------- claims on the assertion handler --
\* C30: an AssertionError raised by running() never ends the loop: the handler
\* reports it once on sig_assertion and goes back to the head of the loop, and
\* the loop is left only with the flag cleared by stop().
C30_AssertionNeverEndsLoop ==
    /\ [][(atPc \in {"handler", "handler_noargs"} /\ atPc' # atPc)
             => (atPc' = "top" /\ nAssertion' = nAssertion + 1)]_vars
    /\ [][(atPc' \in {"done", "raised"} /\ atPc' # atPc /\ isRunning)
             => atPc = "running"]_vars
====
